---- MODULE Spec2Model ----
(***************************************************************************)
(* ArcadeHub persistence layer (src/db.py): users, score ledger,           *)
(* leaderboards, achievements and the friend-request table, as a state     *)
(* machine over the four SQLite tables.                                    *)
(*                                                                         *)
(* Conventions.                                                            *)
(*   - A table is the sequence of its rows in rowid order.                 *)
(*   - SQL NULL / Python None is None == <<>>; a value v of a result that  *)
(*     may be None is Some(v) == <<v>>.                                    *)
(*   - now is the reading datetime.utcnow() returns next; every reading    *)
(*     that is stored advances it, so stored timestamps from different     *)
(*     readings are strictly increasing.                                   *)
(*   - last is the call that completed last, with its arguments and, for   *)
(*     rescan_achievements, its return value; interrupted counts the       *)
(*     record_score calls that ended before their evaluation began.        *)
(*   - procs holds, for each of two processes, the call it is in the middle *)
(*     of when calls run concurrently, each on a connection of its own:    *)
(*     every cur.execute is one step, acting on the shared tables.  The    *)
(*     specifications of sequential calls leave procs idle.                *)
(*   - init_db has run (src/db.py:376-380): the friends table has its      *)
(*     status column and the achievements table its reason column, so the  *)
(*     sqlite3.OperationalError branches are not taken.                    *)
(***************************************************************************)
EXTENDS Integers, Sequences, FiniteSets, TLC

VARIABLES users, friends, leaderboard, achievements, now, last, interrupted,
          procs

vars == <<users, friends, leaderboard, achievements, now, last, interrupted,
         procs>>

(***************************************************************************)
(* Inputs and bounds                                                       *)
(***************************************************************************)
Users == {"ann", "bob"}
Games == {"Snake", "Pacman"}
Scores == {-50, 600, 1200}
\* inputs of the play-count specification: one player of one game
PlayUsers == {"ann"}
PlayGames == {"Snake"}
PlayScores == {-50, 550, 1200}
Limits == {0, 1, 2, 20}

MaxLedger == 3
MaxPlays == 6
MaxInterrupted == 1
MaxFriends == 3
\* inputs of the long runs, and the number of events they may reach
LongScores == {1200}
MaxLong == 26
\* inputs of the whole-database specification, and the rows it may hold in
\* users, friends and leaderboard together
AllScores == {-50, 600}
MaxRows == 3

None == <<>>
Some(v) == <<v>>

\* the processes of the concurrent specifications, and a process outside a call
Procs == {1, 2}
Idle == [op |-> "", pc |-> "idle", user |-> "", friend |-> "",
         error |-> None, inserted |-> FALSE,
         game |-> "", score |-> 0, phase |-> "", todo |-> <<>>]

(***************************************************************************)
(* SQL helpers                                                             *)
(***************************************************************************)
\* the row numbers of tbl whose row satisfies P: a WHERE clause
Where(tbl, P(_)) == {i \in 1..Len(tbl) : P(tbl[i])}

\* MAX(score) over the rows numbered in idx: NULL over no rows
SqlMax(tbl, idx) ==
    IF idx = {} THEN None
    ELSE Some(CHOOSE m \in {tbl[i].score : i \in idx} :
                  \A i \in idx : tbl[i].score <= m)

\* SUM(score) over the rows numbered in idx: NULL over no rows
RECURSIVE SumRows(_, _)
SumRows(tbl, idx) ==
    IF idx = {} THEN 0
    ELSE LET i == CHOOSE j \in idx : TRUE
         IN tbl[i].score + SumRows(tbl, idx \ {i})

SqlSum(tbl, idx) == IF idx = {} THEN None ELSE Some(SumRows(tbl, idx))

\* COUNT(*) over the rows numbered in idx
SqlCount(idx) == Cardinality(idx)

\* `x if x is not None else 0`
OrZero(x) == IF x # None THEN x[1] ELSE 0

\* the distinct values of GROUP BY user
GroupUsers(tbl, idx) == {tbl[i].user : i \in idx}

\* the distinct values of GROUP BY user, game
GroupUserGames(tbl, idx) == {<<tbl[i].user, tbl[i].game>> : i \in idx}

\* every order in which the elements of S can be enumerated
Orders(S) ==
    {f \in [1..Cardinality(S) -> S] :
        \A i, j \in 1..Cardinality(S) : i # j => f[i] # f[j]}

Min(a, b) == IF a <= b THEN a ELSE b

(***************************************************************************)
(* Score ledger queries                                                    *)
(***************************************************************************)
get_user_total(user) ==
    OrZero(SqlSum(leaderboard, Where(leaderboard, LAMBDA r : r.user = user)))

get_user_game_total(user, game) ==
    OrZero(SqlSum(leaderboard,
                  Where(leaderboard, LAMBDA r : r.user = user /\ r.game = game)))

get_user_best_score(user) ==
    OrZero(SqlMax(leaderboard, Where(leaderboard, LAMBDA r : r.user = user)))

\* MAX(score) of all of the user's rows, the game filter dropped
get_user_best_for_game_AnyGame(user, game) == get_user_best_score(user)

get_user_best_for_game(user, game) ==
    OrZero(SqlMax(leaderboard,
                  Where(leaderboard, LAMBDA r : r.user = user /\ r.game = game)))

\* SELECT MAX(score) as best FROM leaderboard WHERE user=? GROUP BY game
\* as the function game |-> best over the games the user has a row for
UserBests(user) ==
    [g \in {leaderboard[i].game :
                i \in Where(leaderboard, LAMBDA r : r.user = user)} |->
        SqlMax(leaderboard,
               Where(leaderboard, LAMBDA r : r.user = user /\ r.game = g))[1]]

RECURSIVE SumFn(_, _)
SumFn(f, D) ==
    IF D = {} THEN 0
    ELSE LET d == CHOOSE e \in D : TRUE IN f[d] + SumFn(f, D \ {d})

\* SUM(best) over the subquery's rows: NULL over no rows
SumOfBests(user) ==
    LET b == UserBests(user)
    IN IF DOMAIN b = {} THEN None ELSE Some(SumFn(b, DOMAIN b))

get_user_overall_by_bests(user) == OrZero(SumOfBests(user))

\* the rank query with `best >= ?`
get_rank_for_game_GreaterEqual(user, game) ==
    LET best == SqlMax(leaderboard,
                       Where(leaderboard,
                             LAMBDA r : r.user = user /\ r.game = game))
        ofGame == Where(leaderboard, LAMBDA r : r.game = game)
        cnt == Cardinality(
                 {u \in GroupUsers(leaderboard, ofGame) :
                    SqlMax(leaderboard,
                           Where(leaderboard,
                                 LAMBDA r : r.game = game /\ r.user = u))[1]
                      >= best[1]})
    IN IF best = None THEN None ELSE Some(cnt + 1)

get_rank_for_game(user, game) ==
    LET best == SqlMax(leaderboard,
                       Where(leaderboard,
                             LAMBDA r : r.user = user /\ r.game = game))
        ofGame == Where(leaderboard, LAMBDA r : r.game = game)
        cnt == Cardinality(
                 {u \in GroupUsers(leaderboard, ofGame) :
                    SqlMax(leaderboard,
                           Where(leaderboard,
                                 LAMBDA r : r.game = game /\ r.user = u))[1]
                      > best[1]})
    IN IF best = None THEN None ELSE Some(cnt + 1)

get_overall_rank_by_bests(user) ==
    LET cnt == SqlCount(DOMAIN UserBests(user))
        total == SumOfBests(user)
        higher == Cardinality(
                    {u \in {p[1] : p \in GroupUserGames(
                                            leaderboard,
                                            1..Len(leaderboard))} :
                       SumOfBests(u)[1] > total[1]})
    IN IF cnt = 0 THEN None ELSE Some(higher + 1)

\* the rank by sum of events counted against the totals by sum of bests
get_overall_rank_BestsOfOthers(user) ==
    LET total == SqlSum(leaderboard,
                        Where(leaderboard, LAMBDA r : r.user = user))
        cnt == Cardinality(
                 {u \in GroupUsers(leaderboard, 1..Len(leaderboard)) :
                    SumOfBests(u)[1] > total[1]})
    IN IF total = None THEN None ELSE Some(cnt + 1)

get_overall_rank(user) ==
    LET total == SqlSum(leaderboard,
                        Where(leaderboard, LAMBDA r : r.user = user))
        cnt == Cardinality(
                 {u \in GroupUsers(leaderboard, 1..Len(leaderboard)) :
                    SqlSum(leaderboard,
                           Where(leaderboard, LAMBDA r : r.user = u))[1]
                      > total[1]})
    IN IF total = None THEN None ELSE Some(cnt + 1)

(***************************************************************************)
(* Leaderboards.  ORDER BY ... DESC leaves the order of rows with equal    *)
(* keys to SQLite, so a leaderboard query denotes the set of lists it may  *)
(* return.                                                                 *)
(***************************************************************************)
\* ORDER BY total DESC LIMIT limit over the grouped rows user |-> total
OrderByTotalDescLimit(totals, limit) ==
    LET n == Cardinality(DOMAIN totals)
    IN {[i \in 1..Min(limit, n) |-> <<o[i], totals[o[i]]>>] :
          o \in {q \in Orders(DOMAIN totals) :
                   \A i, j \in 1..n : i < j => totals[q[i]] >= totals[q[j]]}}

\* MAX(created_at) over the rows numbered in idx, idx not empty
SqlMaxCreatedAt(tbl, idx) ==
    CHOOSE m \in {tbl[i].created_at : i \in idx} :
        \A i \in idx : tbl[i].created_at <= m

\* the per-game leaderboard with SUM(score) where MAX(score) belongs
get_leaderboard_SumScore(game, limit) ==
    LET ofGame == Where(leaderboard, LAMBDA r : r.game = game)
        us == GroupUsers(leaderboard, ofGame)
        rowsOf(u) == Where(leaderboard,
                           LAMBDA r : r.game = game /\ r.user = u)
        score == [u \in us |-> SqlSum(leaderboard, rowsOf(u))[1]]
        n == Cardinality(us)
    IN {[i \in 1..Min(limit, n) |->
           <<o[i], score[o[i]], SqlMaxCreatedAt(leaderboard, rowsOf(o[i]))>>] :
          o \in {q \in Orders(us) :
                   \A i, j \in 1..n : i < j => score[q[i]] >= score[q[j]]}}

\* the per-game leaderboard with ORDER BY score ASC
get_leaderboard_Ascending(game, limit) ==
    LET ofGame == Where(leaderboard, LAMBDA r : r.game = game)
        us == GroupUsers(leaderboard, ofGame)
        rowsOf(u) == Where(leaderboard,
                           LAMBDA r : r.game = game /\ r.user = u)
        score == [u \in us |-> SqlMax(leaderboard, rowsOf(u))[1]]
        n == Cardinality(us)
    IN {[i \in 1..Min(limit, n) |->
           <<o[i], score[o[i]], SqlMaxCreatedAt(leaderboard, rowsOf(o[i]))>>] :
          o \in {q \in Orders(us) :
                   \A i, j \in 1..n : i < j => score[q[i]] <= score[q[j]]}}

\* SELECT user, MAX(score) as score, MAX(created_at) as created_at ...
\* WHERE game=? GROUP BY user ORDER BY score DESC LIMIT ?, as the lists of
\* (user, score, created_at) it may return
get_leaderboard(game, limit) ==
    LET ofGame == Where(leaderboard, LAMBDA r : r.game = game)
        us == GroupUsers(leaderboard, ofGame)
        rowsOf(u) == Where(leaderboard,
                           LAMBDA r : r.game = game /\ r.user = u)
        score == [u \in us |-> SqlMax(leaderboard, rowsOf(u))[1]]
        n == Cardinality(us)
    IN {[i \in 1..Min(limit, n) |->
           <<o[i], score[o[i]], SqlMaxCreatedAt(leaderboard, rowsOf(o[i]))>>] :
          o \in {q \in Orders(us) :
                   \A i, j \in 1..n : i < j => score[q[i]] >= score[q[j]]}}

get_overall_leaderboard(limit) ==
    OrderByTotalDescLimit(
        [u \in GroupUsers(leaderboard, 1..Len(leaderboard)) |->
            SqlSum(leaderboard, Where(leaderboard, LAMBDA r : r.user = u))[1]],
        limit)

\* the by-bests leaderboard with the inner GROUP BY user, game left out, so
\* that each row counts instead of each game's best
get_overall_leaderboard_by_bests_NoInnerGroup(limit) ==
    get_overall_leaderboard(limit)

get_overall_leaderboard_by_bests(limit) ==
    OrderByTotalDescLimit(
        [u \in {p[1] : p \in GroupUserGames(leaderboard, 1..Len(leaderboard))} |->
            SumOfBests(u)[1]],
        limit)

(***************************************************************************)
(* Achievement engine.  conn is the open connection of the handler: the    *)
(* tables it sees and writes, and the clock it reads.                      *)
(***************************************************************************)
score_thresholds == <<500, 1000>>
play_thresholds == <<5, 10, 25>>

\* f"{game}_score_{th}" and f"{game}_plays_{pth}"
score_key(game, th) == game \o "_score_" \o ToString(th)
plays_key(game, pth) == game \o "_plays_" \o ToString(pth)
\* f"Score >= {th} in {game}" and f"Played {pth} games of {game}"
score_reason(game, th) == "Score >= " \o ToString(th) \o " in " \o game
plays_reason(game, pth) == "Played " \o ToString(pth) \o " games of " \o game

\* _award without its existence check
_award_NoCheck(conn, user, key, reason) ==
    [conn EXCEPT
       !.achievements = Append(@, [user |-> user, key |-> key,
                                  reason |-> reason, awarded_at |-> conn.now]),
       !.now = @ + 1]

\* _award whose existence check binds reason where key belongs
_award_WrongColumn(conn, user, key, reason) ==
    IF Where(conn.achievements, LAMBDA a : a.user = user /\ a.key = reason) = {}
    THEN _award_NoCheck(conn, user, key, reason)
    ELSE conn

_award(conn, user, key, reason) ==
    IF Where(conn.achievements, LAMBDA a : a.user = user /\ a.key = key) = {}
    THEN [conn EXCEPT
            !.achievements = Append(@, [user |-> user, key |-> key,
                                       reason |-> reason,
                                       awarded_at |-> conn.now]),
            !.now = @ + 1]
    ELSE conn

\* `for th in score_thresholds: if value >= th: _award(...)`, from index i on
RECURSIVE AwardScores(_, _, _, _, _)
AwardScores(conn, user, game, value, i) ==
    IF i > Len(score_thresholds) THEN conn
    ELSE LET th == score_thresholds[i]
         IN AwardScores(IF value >= th
                        THEN _award(conn, user, score_key(game, th),
                                    score_reason(game, th))
                        ELSE conn,
                        user, game, value, i + 1)

\* the play-count loop with `cnt > pth`
RECURSIVE AwardPlays_Strict(_, _, _, _, _)
AwardPlays_Strict(conn, user, game, cnt, i) ==
    IF i > Len(play_thresholds) THEN conn
    ELSE LET pth == play_thresholds[i]
         IN AwardPlays_Strict(IF cnt > pth
                              THEN _award(conn, user, plays_key(game, pth),
                                          plays_reason(game, pth))
                              ELSE conn,
                              user, game, cnt, i + 1)

\* the play-count loop with the count taken one too high
RECURSIVE AwardPlays_OneEarly(_, _, _, _, _)
AwardPlays_OneEarly(conn, user, game, cnt, i) ==
    IF i > Len(play_thresholds) THEN conn
    ELSE LET pth == play_thresholds[i]
         IN AwardPlays_OneEarly(IF cnt + 1 >= pth
                                THEN _award(conn, user, plays_key(game, pth),
                                            plays_reason(game, pth))
                                ELSE conn,
                                user, game, cnt, i + 1)

\* `for pth in play_thresholds: if cnt >= pth: _award(...)`, from index i on
RECURSIVE AwardPlays(_, _, _, _, _)
AwardPlays(conn, user, game, cnt, i) ==
    IF i > Len(play_thresholds) THEN conn
    ELSE LET pth == play_thresholds[i]
         IN AwardPlays(IF cnt >= pth
                       THEN _award(conn, user, plays_key(game, pth),
                                   plays_reason(game, pth))
                       ELSE conn,
                       user, game, cnt, i + 1)

\* the evaluation without its play-count loop
_maybe_award_achievements_ScoresOnly(conn, user, game, score) ==
    AwardScores(conn, user, game, score, 1)

_maybe_award_achievements(conn, user, game, score) ==
    LET scored == AwardScores(conn, user, game, score, 1)
        cnt == SqlCount(Where(conn.leaderboard,
                              LAMBDA r : r.user = user /\ r.game = game))
    IN AwardPlays(scored, user, game, cnt, 1)

\* the number of thresholds in ths that value reaches
Matches(ths, value) == Cardinality({i \in 1..Len(ths) : value >= ths[i]})

\* the rescan loop reading the latest score of a pair where MAX(score) belongs
RECURSIVE RescanRows_LatestScore(_, _, _)
RescanRows_LatestScore(conn, rows, i) ==
    IF i > Len(rows) THEN conn
    ELSE LET user == rows[i][1]
             game == rows[i][2]
             grp == Where(conn.leaderboard,
                          LAMBDA r : r.user = user /\ r.game = game)
             latest == conn.leaderboard[CHOOSE j \in grp :
                                            \A k \in grp : k <= j].score
             plays == SqlCount(grp)
             scored == AwardScores(conn, user, game, latest, 1)
             played == AwardPlays(scored, user, game, plays, 1)
         IN RescanRows_LatestScore(
                [played EXCEPT
                   !.awarded = @ + Matches(score_thresholds, latest)
                                 + Matches(play_thresholds, plays)],
                rows, i + 1)

\* the rescan loop counting the rows it inserts where it counts the matches
RECURSIVE RescanRows_CountNew(_, _, _)
RescanRows_CountNew(conn, rows, i) ==
    IF i > Len(rows) THEN conn
    ELSE LET user == rows[i][1]
             game == rows[i][2]
             grp == Where(conn.leaderboard,
                          LAMBDA r : r.user = user /\ r.game = game)
             max_score == OrZero(SqlMax(conn.leaderboard, grp))
             plays == SqlCount(grp)
             scored == AwardScores(conn, user, game, max_score, 1)
             played == AwardPlays(scored, user, game, plays, 1)
         IN RescanRows_CountNew(
                [played EXCEPT
                   !.awarded = @ + Len(played.achievements)
                                 - Len(conn.achievements)],
                rows, i + 1)

\* the loop `for r in rows` of rescan_achievements over rows[i..]; rows is the
\* GROUP BY user, game result as a list of <<user, game>>
RECURSIVE RescanRows(_, _, _)
RescanRows(conn, rows, i) ==
    IF i > Len(rows) THEN conn
    ELSE LET user == rows[i][1]
             game == rows[i][2]
             grp == Where(conn.leaderboard,
                          LAMBDA r : r.user = user /\ r.game = game)
             \* `r["max_score"] or 0`, `r["plays"] or 0`
             max_score == OrZero(SqlMax(conn.leaderboard, grp))
             plays == SqlCount(grp)
             scored == AwardScores(conn, user, game, max_score, 1)
             played == AwardPlays(scored, user, game, plays, 1)
         IN RescanRows([played EXCEPT
                          !.awarded = @ + Matches(score_thresholds, max_score)
                                        + Matches(play_thresholds, plays)],
                       rows, i + 1)

(***************************************************************************)
(* Handlers                                                                *)
(***************************************************************************)
Conn == [leaderboard |-> leaderboard, achievements |-> achievements,
         now |-> now, awarded |-> 0]

\* the INSERT as a replacement of the row the pair already has
InsertScore_Upsert(conn, game, user, score) ==
    LET row == [game |-> game, user |-> user, score |-> score,
                created_at |-> conn.now]
        old == Where(conn.leaderboard,
                     LAMBDA r : r.game = game /\ r.user = user)
    IN [conn EXCEPT
          !.leaderboard = IF old = {} THEN Append(@, row)
                          ELSE [i \in 1..Len(@) |->
                                  IF i \in old THEN row ELSE @[i]],
          !.now = @ + 1]

\* INSERT INTO leaderboard ... ; conn.commit()
InsertScore(conn, game, user, score) ==
    [conn EXCEPT
       !.leaderboard = Append(@, [game |-> game, user |-> user,
                                  score |-> score, created_at |-> conn.now]),
       !.now = @ + 1]

record_score(game, user, score) ==
    LET done == _maybe_award_achievements(
                    InsertScore(Conn, game, user, score), user, game, score)
    IN /\ leaderboard' = done.leaderboard
       /\ achievements' = done.achievements
       /\ now' = done.now
       /\ last' = [op |-> "record_score", game |-> game, user |-> user,
                   score |-> score, ret |-> None]
       /\ UNCHANGED <<procs, users, friends, interrupted>>

\* the interrupted call with its INSERT rolled back
record_score_interrupted_RolledBack(game, user, score) ==
    /\ last' = [op |-> "record_score_interrupted", game |-> game,
                user |-> user, score |-> score, ret |-> None]
    /\ interrupted' = interrupted + 1
    /\ UNCHANGED <<procs, users, friends, leaderboard, achievements, now>>

\* record_score whose process ends, or whose evaluation raises, after the
\* INSERT is committed (conn.commit(), conn.close()) and before the
\* conn.commit() of _maybe_award_achievements: the rows the evaluation has
\* inserted by then are not committed
record_score_interrupted(game, user, score) ==
    LET done == InsertScore(Conn, game, user, score)
    IN /\ leaderboard' = done.leaderboard
       /\ now' = done.now
       /\ last' = [op |-> "record_score_interrupted", game |-> game,
                   user |-> user, score |-> score, ret |-> None]
       /\ interrupted' = interrupted + 1
       /\ UNCHANGED <<procs, users, friends, achievements>>

\* rows: the order in which SQLite returns the groups
rescan_achievements(rows) ==
    LET done == RescanRows(Conn, rows, 1)
    IN /\ achievements' = done.achievements
       /\ now' = done.now
       /\ last' = [op |-> "rescan_achievements", game |-> "", user |-> "",
                   score |-> 0, ret |-> Some(done.awarded)]
       /\ UNCHANGED <<procs, users, friends, leaderboard, interrupted>>

(***************************************************************************)
(* Users.  A row is <<username, created_at>>; username is declared UNIQUE, *)
(* so an INSERT of a username the table holds raises                       *)
(* sqlite3.IntegrityError and inserts nothing.  error is the exception     *)
(* that leaves the call, None when it returns normally.                    *)
(***************************************************************************)
UserConn == [users |-> users, now |-> now, error |-> None]

\* SELECT id FROM users WHERE username=? ; cur.fetchone()
SelectUser(tbl, username) ==
    LET found == Where(tbl, LAMBDA r : r.username = username)
    IN IF found = {} THEN None ELSE Some(CHOOSE i \in found : TRUE)

\* INSERT INTO users (username, created_at) VALUES (?, ?) ; conn.commit()
InsertUser(conn, username) ==
    IF SelectUser(conn.users, username) # None
    THEN [conn EXCEPT !.error = Some("IntegrityError")]
    ELSE [conn EXCEPT
            !.users = Append(@, [username |-> username,
                                 created_at |-> conn.now]),
            !.now = @ + 1]

AddUserRows_AlwaysInsert(conn, username) == InsertUser(conn, username)

AddUserRows(conn, username) ==
    IF SelectUser(conn.users, username) = None
    THEN InsertUser(conn, username)
    ELSE conn

add_user_if_not_exists(username) ==
    LET done == AddUserRows(UserConn, username)
    IN /\ users' = done.users
       /\ now' = done.now
       /\ last' = [op |-> "add_user_if_not_exists", user |-> username,
                   error |-> done.error]
       /\ UNCHANGED <<procs, friends, leaderboard, achievements, interrupted>>

(***************************************************************************)
(* Friend graph.  A row <<user, friend>> with status pending is a request  *)
(* of user to friend; an accepted row lists friend among user's friends.   *)
(***************************************************************************)
\* ORDER BY added_at DESC over the rows numbered in idx, as the list of row
\* numbers.  Rows with equal added_at are rows one UPDATE of
\* accept_friend_request has stamped; they agree in user and friend, so the
\* order SQLite gives them does not show in the lists below.
RECURSIVE OrderByAddedAtDesc(_, _)
OrderByAddedAtDesc(tbl, idx) ==
    IF idx = {} THEN <<>>
    ELSE LET i == CHOOSE j \in idx :
                    \A k \in idx : \/ tbl[k].added_at < tbl[j].added_at
                                   \/ (tbl[k].added_at = tbl[j].added_at /\ j <= k)
         IN <<i>> \o OrderByAddedAtDesc(tbl, idx \ {i})

\* SELECT user FROM friends WHERE friend=? AND status='pending' ORDER BY added_at DESC
FriendRequestsIn(tbl, user) ==
    LET o == OrderByAddedAtDesc(
                 tbl, Where(tbl, LAMBDA r : r.friend = user /\ r.status = "pending"))
    IN [n \in 1..Len(o) |-> tbl[o[n]].user]

get_friend_requests(user) == FriendRequestsIn(friends, user)

\* SELECT friend FROM friends WHERE user=? AND status='accepted' ORDER BY added_at DESC
FriendsIn(tbl, user) ==
    LET o == OrderByAddedAtDesc(
                 tbl, Where(tbl, LAMBDA r : r.user = user /\ r.status = "accepted"))
    IN [n \in 1..Len(o) |-> tbl[o[n]].friend]

get_friends(user) == FriendsIn(friends, user)

FriendConn == [friends |-> friends, now |-> now]

\* INSERT INTO friends (user, friend, added_at, status) ... 'pending'
InsertFriend(conn, user, friend, status) ==
    [conn EXCEPT
       !.friends = Append(@, [user |-> user, friend |-> friend,
                              added_at |-> conn.now, status |-> status]),
       !.now = @ + 1]

\* add_friend with the arguments bound to the other columns
AddFriendRows_Swapped(conn, user, friend) ==
    InsertFriend(conn, friend, user, "pending")

\* add_friend that leaves status to the column's DEFAULT 'accepted'
AddFriendRows_DefaultStatus(conn, user, friend) ==
    InsertFriend(conn, user, friend, "accepted")

AddFriendRows(conn, user, friend) == InsertFriend(conn, user, friend, "pending")

add_friend(user, friend) ==
    LET done == AddFriendRows(FriendConn, user, friend)
    IN /\ friends' = done.friends
       /\ now' = done.now
       /\ last' = [op |-> "add_friend", user |-> user, friend |-> friend]
       /\ UNCHANGED <<procs, users, leaderboard, achievements, interrupted>>

\* the UPDATE as a DELETE of the pending rows it matches
AcceptUpdateRows_DeleteRequest(conn, user, requester) ==
    LET tbl == conn.friends
        kept == {i \in 1..Len(tbl) : ~(/\ tbl[i].user = requester
                                       /\ tbl[i].friend = user
                                       /\ tbl[i].status = "pending")}
        keep(r) == r \in {tbl[i] : i \in kept}
    IN [conn EXCEPT !.friends = SelectSeq(tbl, keep)]

\* UPDATE friends SET status='accepted', added_at=? WHERE user=? AND friend=?
\* AND status='pending', bound to (requester, user)
AcceptUpdateRows(conn, user, requester) ==
    LET tbl == conn.friends
        matched == Where(tbl, LAMBDA r : /\ r.user = requester
                                         /\ r.friend = user
                                         /\ r.status = "pending")
    IN [conn EXCEPT
          !.friends = [i \in 1..Len(tbl) |->
                         IF i \in matched
                         THEN [tbl[i] EXCEPT !.status = "accepted",
                                             !.added_at = conn.now]
                         ELSE tbl[i]],
          !.now = IF matched = {} THEN @ ELSE @ + 1]

\* SELECT id FROM friends WHERE user=? AND friend=? ; cur.fetchone()
SelectMirror(tbl, user, requester) ==
    LET found == Where(tbl, LAMBDA r : r.user = user /\ r.friend = requester)
    IN IF found = {} THEN None ELSE Some(CHOOSE i \in found : TRUE)

\* the INSERT of the mirrored row as INSERT ... WHERE NOT EXISTS
AcceptInsertRows_IfAbsent(conn, user, requester) ==
    IF SelectMirror(conn.friends, user, requester) = None
    THEN InsertFriend(conn, user, requester, "accepted")
    ELSE conn

\* INSERT INTO friends (user, friend, added_at, status) VALUES (?,?,?,'accepted')
AcceptInsertRows(conn, user, requester) ==
    InsertFriend(conn, user, requester, "accepted")

\* the UPDATE and the conditional INSERT of accept_friend_request
AcceptRows(conn, user, requester) ==
    LET updated == AcceptUpdateRows(conn, user, requester)
    IN IF SelectMirror(updated.friends, user, requester) = None
       THEN AcceptInsertRows(updated, user, requester)
       ELSE updated

accept_friend_request(user, requester) ==
    LET done == AcceptRows(FriendConn, user, requester)
    IN /\ friends' = done.friends
       /\ now' = done.now
       /\ last' = [op |-> "accept_friend_request", user |-> user,
                   friend |-> requester]
       /\ UNCHANGED <<procs, users, leaderboard, achievements, interrupted>>

(***************************************************************************)
(* Calls of two processes, statement by statement.  A process enters a     *)
(* call with the call's first statement and is idle again when the call    *)
(* has returned or raised.                                                 *)
(***************************************************************************)
\* add_user_if_not_exists: the SELECT and `if not cur.fetchone()`
add_user_select(p, username) ==
    /\ procs[p].pc = "idle"
    /\ procs' = [procs EXCEPT
                   ![p] = [Idle EXCEPT
                             !.op = "add_user_if_not_exists",
                             !.pc = IF SelectUser(users, username) = None
                                    THEN "insert" ELSE "return",
                             !.user = username]]
    /\ UNCHANGED <<users, friends, leaderboard, achievements, now, last,
                   interrupted>>

\* add_user_if_not_exists: the INSERT and conn.commit(); nothing catches the
\* sqlite3.IntegrityError of the UNIQUE constraint
add_user_insert(p) ==
    /\ procs[p].op = "add_user_if_not_exists"
    /\ procs[p].pc = "insert"
    /\ LET done == InsertUser(UserConn, procs[p].user)
       IN /\ users' = done.users
          /\ now' = done.now
          /\ procs' = [procs EXCEPT ![p].pc = "return",
                                    ![p].error = done.error,
                                    ![p].inserted = (done.error = None)]
    /\ UNCHANGED <<friends, leaderboard, achievements, last, interrupted>>

\* add_user_if_not_exists returns, or its exception reaches the caller
add_user_return(p) ==
    /\ procs[p].op = "add_user_if_not_exists"
    /\ procs[p].pc = "return"
    /\ last' = [op |-> "add_user_if_not_exists", user |-> procs[p].user,
                error |-> procs[p].error]
    /\ procs' = [procs EXCEPT ![p] = Idle]
    /\ UNCHANGED <<users, friends, leaderboard, achievements, now,
                   interrupted>>

\* accept_friend_request: the UPDATE
accept_update(p, user, requester) ==
    /\ procs[p].pc = "idle"
    /\ LET done == AcceptUpdateRows(FriendConn, user, requester)
       IN /\ friends' = done.friends
          /\ now' = done.now
    /\ procs' = [procs EXCEPT
                   ![p] = [Idle EXCEPT !.op = "accept_friend_request",
                                       !.pc = "select",
                                       !.user = user,
                                       !.friend = requester]]
    /\ UNCHANGED <<users, leaderboard, achievements, last, interrupted>>

\* accept_friend_request: the SELECT and `if not cur.fetchone()`
accept_select(p) ==
    /\ procs[p].op = "accept_friend_request"
    /\ procs[p].pc = "select"
    /\ procs' = [procs EXCEPT
                   ![p].pc = IF SelectMirror(friends, procs[p].user,
                                             procs[p].friend) = None
                             THEN "insert" ELSE "return"]
    /\ UNCHANGED <<users, friends, leaderboard, achievements, now, last,
                   interrupted>>

\* accept_friend_request: the INSERT of the mirrored row
accept_insert(p) ==
    /\ procs[p].op = "accept_friend_request"
    /\ procs[p].pc = "insert"
    /\ LET done == AcceptInsertRows(FriendConn, procs[p].user,
                                    procs[p].friend)
       IN /\ friends' = done.friends
          /\ now' = done.now
    /\ procs' = [procs EXCEPT ![p].pc = "return", ![p].inserted = TRUE]
    /\ UNCHANGED <<users, leaderboard, achievements, last, interrupted>>

\* accept_friend_request: conn.commit() and the return
accept_return(p) ==
    /\ procs[p].op = "accept_friend_request"
    /\ procs[p].pc = "return"
    /\ last' = [op |-> "accept_friend_request", user |-> procs[p].user,
                friend |-> procs[p].friend]
    /\ procs' = [procs EXCEPT ![p] = Idle]
    /\ UNCHANGED <<users, friends, leaderboard, achievements, now,
                   interrupted>>

\* INSERT INTO achievements (user, key, reason, awarded_at) VALUES (?,?,?,?)
InsertAchievement(conn, user, key, reason) ==
    [conn EXCEPT
       !.achievements = Append(@, [user |-> user, key |-> key,
                                  reason |-> reason, awarded_at |-> conn.now]),
       !.now = @ + 1]

\* the thresholds of ths that value reaches, in the order of the loop
\* `for th in ths: if value >= th: _award(...)`: the _award calls it makes
ReachedFrom(ths, value, i) ==
    SelectSeq(SubSeq(ths, i, Len(ths)), LAMBDA th : value >= th)

\* where a process is after one _award call less: at the next call's SELECT,
\* and after the last call of a loop at the COUNT(*) or at the commit
AfterAward(pr) ==
    LET rest == Tail(pr.todo)
    IN [pr EXCEPT !.todo = rest,
                  !.pc = IF rest # <<>> THEN "select"
                         ELSE IF pr.phase = "scores" THEN "count"
                         ELSE "return"]

\* record_score: the INSERT, conn.commit(), and the entry into the score loop
\* of _maybe_award_achievements
record_insert(p, game, user, score) ==
    /\ procs[p].pc = "idle"
    /\ LET done == InsertScore(Conn, game, user, score)
           todo == ReachedFrom(score_thresholds, score, 1)
       IN /\ leaderboard' = done.leaderboard
          /\ now' = done.now
          /\ procs' = [procs EXCEPT
                         ![p] = [Idle EXCEPT
                                   !.op = "record_score",
                                   !.pc = IF todo # <<>> THEN "select"
                                          ELSE "count",
                                   !.user = user,
                                   !.game = game,
                                   !.score = score,
                                   !.phase = "scores",
                                   !.todo = todo]]
    /\ UNCHANGED <<users, friends, achievements, last, interrupted>>

\* f"{game}_score_{th}" or f"{game}_plays_{pth}" of the _award call a process
\* is in, and its reason
AwardKey(pr) ==
    IF pr.phase = "scores" THEN score_key(pr.game, Head(pr.todo))
    ELSE plays_key(pr.game, Head(pr.todo))

AwardReason(pr) ==
    IF pr.phase = "scores" THEN score_reason(pr.game, Head(pr.todo))
    ELSE plays_reason(pr.game, Head(pr.todo))

\* _award: SELECT id FROM achievements WHERE user=? AND key=? and
\* `if not cur.fetchone()`
award_select(p) ==
    /\ procs[p].op = "record_score"
    /\ procs[p].pc = "select"
    /\ procs' = [procs EXCEPT
                   ![p] = IF Where(achievements,
                                   LAMBDA a : /\ a.user = procs[p].user
                                              /\ a.key = AwardKey(procs[p]))
                               = {}
                          THEN [@ EXCEPT !.pc = "insert"]
                          ELSE AfterAward(@)]
    /\ UNCHANGED <<users, friends, leaderboard, achievements, now, last,
                   interrupted>>

\* _award: the INSERT INTO achievements
award_insert(p) ==
    /\ procs[p].op = "record_score"
    /\ procs[p].pc = "insert"
    /\ LET done == InsertAchievement(Conn, procs[p].user,
                                     AwardKey(procs[p]),
                                     AwardReason(procs[p]))
       IN /\ achievements' = done.achievements
          /\ now' = done.now
    /\ procs' = [procs EXCEPT ![p] = AfterAward(@)]
    /\ UNCHANGED <<users, friends, leaderboard, last, interrupted>>

\* _maybe_award_achievements: SELECT COUNT(*) ... WHERE user=? AND game=?, and
\* the entry into the play-count loop
award_count(p) ==
    /\ procs[p].op = "record_score"
    /\ procs[p].pc = "count"
    /\ LET cnt == SqlCount(Where(leaderboard,
                                 LAMBDA r : /\ r.user = procs[p].user
                                            /\ r.game = procs[p].game))
           todo == ReachedFrom(play_thresholds, cnt, 1)
       IN procs' = [procs EXCEPT
                      ![p].phase = "plays",
                      ![p].todo = todo,
                      ![p].pc = IF todo # <<>> THEN "select" ELSE "return"]
    /\ UNCHANGED <<users, friends, leaderboard, achievements, now, last,
                   interrupted>>

\* _maybe_award_achievements: conn.commit(), conn.close(); record_score returns
record_return(p) ==
    /\ procs[p].op = "record_score"
    /\ procs[p].pc = "return"
    /\ last' = [op |-> "record_score", game |-> procs[p].game,
                user |-> procs[p].user, score |-> procs[p].score,
                ret |-> None]
    /\ procs' = [procs EXCEPT ![p] = Idle]
    /\ UNCHANGED <<users, friends, leaderboard, achievements, now,
                   interrupted>>

(***************************************************************************)
(* Specifications                                                          *)
(***************************************************************************)
Init ==
    /\ users = <<>>
    /\ friends = <<>>
    /\ leaderboard = <<>>
    /\ achievements = <<>>
    /\ now = 0
    /\ interrupted = 0
    /\ last = [op |-> "init", game |-> "", user |-> "", score |-> 0,
               ret |-> None]
    /\ procs = [p \in Procs |-> Idle]

\* Spec: the ledger and its leaderboards under any players, games and scores
RecordScore ==
    /\ Len(leaderboard) < MaxLedger
    /\ \E g \in Games, u \in Users, s \in Scores : record_score(g, u, s)

Next == RecordScore

Spec == Init /\ [][Next]_vars

\* SpecAch: one player's runs of one game, long enough to reach a play-count
\* threshold, where a call may end between the score write and the evaluation
PlayRecordScore ==
    /\ Len(leaderboard) < MaxPlays
    /\ \E g \in PlayGames, u \in PlayUsers, s \in PlayScores :
          record_score(g, u, s)

PlayRecordScoreInterrupted ==
    /\ Len(leaderboard) < MaxPlays
    /\ interrupted < MaxInterrupted
    /\ \E g \in PlayGames, u \in PlayUsers, s \in PlayScores :
          record_score_interrupted(g, u, s)

Rescan ==
    \E rows \in Orders(GroupUserGames(leaderboard, 1..Len(leaderboard))) :
        rescan_achievements(rows)

NextAch == PlayRecordScore \/ PlayRecordScoreInterrupted \/ Rescan

SpecAch == Init /\ [][NextAch]_vars

\* SpecFriends: requests and acceptances among the users, in any order
AddFriend ==
    /\ Len(friends) < MaxFriends
    /\ \E u \in Users, f \in Users : add_friend(u, f)

AcceptFriendRequest ==
    \E u \in Users, r \in Users :
        /\ Len(AcceptRows(FriendConn, u, r).friends) <= MaxFriends
        /\ accept_friend_request(u, r)

NextFriends == AddFriend \/ AcceptFriendRequest

SpecFriends == Init /\ [][NextFriends]_vars

\* SpecLong: SpecAch, and the runs of one player that repeat one top score
\* until the last play-count threshold is passed
LongRun == \A i \in 1..Len(leaderboard) : leaderboard[i].score \in LongScores

LongRecordScore ==
    /\ Len(leaderboard) < MaxLong
    /\ LongRun
    /\ \E g \in PlayGames, u \in PlayUsers, s \in LongScores :
          record_score(g, u, s)

LongRecordScoreInterrupted ==
    /\ Len(leaderboard) < MaxLong
    /\ LongRun
    /\ interrupted < MaxInterrupted
    /\ \E g \in PlayGames, u \in PlayUsers, s \in LongScores :
          record_score_interrupted(g, u, s)

NextLong ==
    \/ PlayRecordScore
    \/ PlayRecordScoreInterrupted
    \/ LongRecordScore
    \/ LongRecordScoreInterrupted
    \/ Rescan

SpecLong == Init /\ [][NextLong]_vars

\* SpecAll: every writing operation of the module over one small database
TotalRows == Len(users) + Len(friends) + Len(leaderboard)

AllAddUser ==
    \E u \in Users :
        /\ Len(AddUserRows(UserConn, u).users) + Len(friends)
             + Len(leaderboard) <= MaxRows
        /\ add_user_if_not_exists(u)

AllRecordScore ==
    /\ TotalRows < MaxRows
    /\ \E g \in PlayGames, u \in Users, s \in AllScores : record_score(g, u, s)

AllRecordScoreInterrupted ==
    /\ TotalRows < MaxRows
    /\ interrupted < MaxInterrupted
    /\ \E g \in PlayGames, u \in Users, s \in AllScores :
          record_score_interrupted(g, u, s)

AllAddFriend ==
    /\ TotalRows < MaxRows
    /\ \E u \in Users : \E f \in Users \ {u} : add_friend(u, f)

AllAcceptFriendRequest ==
    \E u \in Users : \E r \in Users \ {u} :
        /\ Len(users) + Len(AcceptRows(FriendConn, u, r).friends)
             + Len(leaderboard) <= MaxRows
        /\ accept_friend_request(u, r)

NextAll ==
    \/ AllAddUser
    \/ AllRecordScore
    \/ AllRecordScoreInterrupted
    \/ Rescan
    \/ AllAddFriend
    \/ AllAcceptFriendRequest

SpecAll == Init /\ [][NextAll]_vars

\* SpecUsersConc: two launchers that start at the same time; the calls that
\* record scores and send requests keep the clock and the other tables moving
ConcAddUserSelect == \E p \in Procs, u \in Users : add_user_select(p, u)
ConcAddUserInsert == \E p \in Procs : add_user_insert(p)
ConcAddUserReturn == \E p \in Procs : add_user_return(p)

NextUsersConc ==
    \/ ConcAddUserSelect
    \/ ConcAddUserInsert
    \/ ConcAddUserReturn
    \/ AllRecordScore

SpecUsersConc == Init /\ [][NextUsersConc]_vars

\* SpecAcceptConc: requests to another user, and acceptances of another
\* user's requests by two processes
ConcAddFriend ==
    /\ Len(friends) < MaxFriends
    /\ \E u \in Users : \E f \in Users \ {u} : add_friend(u, f)

ConcAcceptUpdate ==
    \E p \in Procs, u \in Users :
        \E r \in Users \ {u} : accept_update(p, u, r)
ConcAcceptSelect == \E p \in Procs : accept_select(p)
ConcAcceptInsert ==
    \E p \in Procs : Len(friends) < MaxFriends /\ accept_insert(p)
ConcAcceptReturn == \E p \in Procs : accept_return(p)

NextAcceptConc ==
    \/ ConcAddFriend
    \/ ConcAcceptUpdate
    \/ ConcAcceptSelect
    \/ ConcAcceptInsert
    \/ ConcAcceptReturn

SpecAcceptConc == Init /\ [][NextAcceptConc]_vars

\* SpecScoreConc: two game processes of one player that record their scores
ConcRecordInsert ==
    /\ Len(leaderboard) < MaxLedger
    /\ \E p \in Procs, g \in PlayGames, u \in PlayUsers, s \in PlayScores :
          record_insert(p, g, u, s)
ConcAwardSelect == \E p \in Procs : award_select(p)
ConcAwardInsert == \E p \in Procs : award_insert(p)
ConcAwardCount == \E p \in Procs : award_count(p)
ConcRecordReturn == \E p \in Procs : record_return(p)

NextScoreConc ==
    \/ ConcRecordInsert
    \/ ConcAwardSelect
    \/ ConcAwardInsert
    \/ ConcAwardCount
    \/ ConcRecordReturn

SpecScoreConc == Init /\ [][NextScoreConc]_vars

(***************************************************************************)
(* Claims                                                                  *)
(***************************************************************************)
Max(a, b) == IF a >= b THEN a ELSE b

\* the ledger rows of (user, game)
EventsOf(user, game) ==
    Where(leaderboard, LAMBDA r : r.user = user /\ r.game = game)

\* this step is a completed call record_score(game, user, score)
Recorded(game, user, score) ==
    /\ leaderboard' # leaderboard
    /\ last'.op = "record_score"
    /\ last'.game = game /\ last'.user = user /\ last'.score = score

\* C1: for every (user, game), get_user_best_for_game is the maximum and
\* get_user_game_total the sum of the scores passed to record_score for that
\* pair: both are 0 while no call was made for the pair, the first call sets
\* both to its score, every later call for the pair raises the best to the
\* larger of the old best and the new score and adds the score to the total,
\* and a call for another pair changes neither.
C1_BestAndTotalFollowCalls ==
    /\ [](\A u \in Users, g \in Games :
            EventsOf(u, g) = {} =>
                get_user_best_for_game(u, g) = 0 /\ get_user_game_total(u, g) = 0)
    /\ [][\A u \in Users, g \in Games :
            IF \E s \in Scores : Recorded(g, u, s)
            THEN /\ get_user_best_for_game(u, g)' =
                       IF EventsOf(u, g) = {} THEN last'.score
                       ELSE Max(get_user_best_for_game(u, g), last'.score)
                 /\ get_user_game_total(u, g)' =
                       get_user_game_total(u, g) + last'.score
            ELSE /\ get_user_best_for_game(u, g)' = get_user_best_for_game(u, g)
                 /\ get_user_game_total(u, g)' = get_user_game_total(u, g)]_vars

\* C1 witness: a pair with several calls whose best is not the last score
\* passed and whose total differs from its best, next to a pair with no call
C1_Witness ==
    /\ last.op = "record_score"
    /\ Cardinality(EventsOf(last.user, last.game)) >= 3
    /\ get_user_best_for_game(last.user, last.game) > last.score
    /\ get_user_game_total(last.user, last.game)
         # get_user_best_for_game(last.user, last.game)
    /\ \E u \in Users, g \in Games : EventsOf(u, g) = {}

\* the achievement rows of user with this key
Held(user, key) ==
    Where(achievements, LAMBDA a : a.user = user /\ a.key = key)

\* C2: through any sequence of record_score and rescan_achievements calls the
\* achievements table holds at most one row per (user, key).
C2_AchievementUniquePerUserKey ==
    \A i, j \in 1..Len(achievements) :
        (achievements[i].user = achievements[j].user
           /\ achievements[i].key = achievements[j].key) => i = j

\* C2 witness: the same qualifying score was recorded twice in a row for
\* ann's Snake, a rescan followed, and Snake_score_500 is there exactly once
C2_Witness ==
    /\ last.op = "rescan_achievements"
    /\ Len(leaderboard) >= 2
    /\ \A i \in 1..2 :
          /\ leaderboard[i].user = "ann" /\ leaderboard[i].game = "Snake"
          /\ leaderboard[i].score = 550
    /\ Cardinality(Held("ann", "Snake_score_500")) = 1

\* C3: a rescan_achievements call that directly follows another one creates no
\* achievement row: the table after the second call is the table after the first.
C3_RescanTwiceAddsNothing ==
    [][(last.op = "rescan_achievements" /\ last'.op = "rescan_achievements")
          => achievements' = achievements]_vars

\* C3 witness: a rescan has just run and granted rows that the interrupted
\* calls had left out (rows awarded after the last score was written), among
\* them a play-count achievement
C3_Witness ==
    /\ last.op = "rescan_achievements"
    /\ leaderboard # <<>>
    /\ \E a \in 1..Len(achievements) :
          /\ achievements[a].key = "Snake_plays_5"
          /\ \A i \in 1..Len(leaderboard) :
                leaderboard[i].created_at < achievements[a].awarded_at
    /\ \E a \in 1..Len(achievements) :
          /\ achievements[a].key = "Snake_score_1000"
          /\ \A i \in 1..Len(leaderboard) :
                leaderboard[i].created_at < achievements[a].awarded_at

\* the keys the claim names for a call with this score that leaves n events
ExpectedKeys(game, score, n) ==
    {game \o "_score_500" : x \in {t \in {500} : t <= score}}
      \cup {game \o "_score_1000" : x \in {t \in {1000} : t <= score}}
      \cup {game \o "_plays_5" : x \in {q \in {5} : q <= n}}
      \cup {game \o "_plays_10" : x \in {q \in {10} : q <= n}}
      \cup {game \o "_plays_25" : x \in {q \in {25} : q <= n}}

Beats(user, rival, game) ==
    \E i \in EventsOf(user, game) :
        \A j \in EventsOf(rival, game) : leaderboard[i].score > leaderboard[j].score

\* C4: get_rank_for_game(user, game) is None exactly when the user has no event
\* for the game; otherwise it is 1 + the number of distinct users whose best
\* score for the game is strictly greater than the user's best.  So users with
\* equal bests have the same rank, and a user no rival beats has rank 1.
C4_RankIsOnePlusStrictlyBetter ==
    \A u \in Users, g \in Games :
        /\ (get_rank_for_game(u, g) = None) <=> (EventsOf(u, g) = {})
        /\ EventsOf(u, g) # {} =>
             /\ get_rank_for_game(u, g) =
                  Some(1 + Cardinality({v \in Users : EventsOf(v, g) # {}
                                                       /\ Beats(v, u, g)}))
             /\ (\A v \in Users : ~(EventsOf(v, g) # {} /\ Beats(v, u, g)))
                   => get_rank_for_game(u, g) = Some(1)
             /\ \A v \in Users :
                   (EventsOf(v, g) # {} /\ ~Beats(v, u, g) /\ ~Beats(u, v, g))
                      => get_rank_for_game(v, g) = get_rank_for_game(u, g)

\* C4 witness: two users tie for rank 1 in one game, and in another game one
\* of them is ranked and the other has no rank
C4_Witness ==
    /\ get_rank_for_game("ann", "Snake") = Some(1)
    /\ get_rank_for_game("bob", "Snake") = Some(1)
    /\ get_rank_for_game("ann", "Pacman") = Some(1)
    /\ get_rank_for_game("bob", "Pacman") = None

\* the games user has an event for
GamesPlayed(user) == {g \in Games : EventsOf(user, g) # {}}

\* the users with an event
Players == {u \in Users : \E g \in Games : EventsOf(u, g) # {}}

RECURSIVE SumBestsOver(_, _)
SumBestsOver(user, gs) ==
    IF gs = {} THEN 0
    ELSE LET g == CHOOSE x \in gs : TRUE
         IN get_user_best_for_game(user, g) + SumBestsOver(user, gs \ {g})

\* a leaderboard list of <<user, total>>: no user twice, totals non-increasing,
\* min(limit, number of users with events) entries, each total as given
WellFormedBoard(board, limit, total(_)) ==
    /\ Len(board) = Min(limit, Cardinality(Players))
    /\ \A i \in 1..Len(board) :
          /\ board[i][1] \in Players
          /\ board[i][2] = total(board[i][1])
    /\ \A i, j \in 1..Len(board) :
          /\ i # j => board[i][1] # board[j][1]
          /\ i < j => board[i][2] >= board[j][2]

\* C10: every list get_overall_leaderboard_by_bests(limit) may return gives each
\* listed user the sum over the games the user has played of the user's best
\* score in that game, which is get_user_overall_by_bests(user); every list
\* get_overall_leaderboard(limit) may return gives each listed user the sum of
\* all the user's scores, which is get_user_total(user); both list no user
\* twice, in non-increasing order of total, and have min(limit, number of users
\* with events) entries.
C10_OverallLeaderboards ==
    \A limit \in Limits :
        /\ \A board \in get_overall_leaderboard_by_bests(limit) :
              /\ WellFormedBoard(board, limit, get_user_overall_by_bests)
              /\ \A i \in 1..Len(board) :
                    board[i][2] = SumBestsOver(board[i][1], GamesPlayed(board[i][1]))
        /\ \A board \in get_overall_leaderboard(limit) :
              /\ WellFormedBoard(board, limit, get_user_total)
              /\ \A i \in 1..Len(board) :
                    board[i][2] = get_user_game_total(board[i][1], "Snake")
                                    + get_user_game_total(board[i][1], "Pacman")
        /\ get_overall_leaderboard_by_bests(limit) # {}
        /\ get_overall_leaderboard(limit) # {}

\* C10 witness: two users have events, so that limit 1 cuts the lists; the two
\* policies give ann different totals; ann leads by sum of events, and the two
\* users tie by sum of bests, so that either may be the one listed
C10_Witness ==
    /\ Players = Users
    /\ get_user_total("ann") = 1200
    /\ get_user_overall_by_bests("ann") = 600
    /\ get_overall_leaderboard(1) = {<< <<"ann", 1200>> >>}
    /\ get_overall_leaderboard_by_bests(1)
         = {<< <<"ann", 600>> >>, << <<"bob", 600>> >>}

\* the number of times x occurs in the list
Count(list, x) == Cardinality({n \in 1..Len(list) : list[n] = x})

\* the friend rows between x and y, in either direction
EdgesBetween(x, y) ==
    Where(friends, LAMBDA r : \/ (r.user = x /\ r.friend = y)
                              \/ (r.user = y /\ r.friend = x))

\* the pending rows that are requests of requester to recipient
PendingFrom(requester, recipient) ==
    Where(friends, LAMBDA r : /\ r.user = requester /\ r.friend = recipient
                              /\ r.status = "pending")

\* this step is a call add_friend(user, friend)
AddedFriend(user, friend) ==
    /\ friends' # friends
    /\ last'.op = "add_friend"
    /\ last'.user = user /\ last'.friend = friend

\* this step is a call accept_friend_request(user, requester)
Accepted(user, requester) ==
    /\ <<friends, last>>' # <<friends, last>>
    /\ last'.op = "accept_friend_request"
    /\ last'.user = user /\ last'.friend = requester

\* C6 as stated: for distinct users x and y without friend rows between them,
\* after add_friend(x, y) get_friend_requests(x) contains y, and after a
\* following accept_friend_request(x, y) each is in the other's get_friends.
C6_Original ==
    [][\A x, y \in Users : x # y =>
         /\ (EdgesBetween(x, y) = {} /\ AddedFriend(x, y))
               => Count(get_friend_requests(x)', y) > 0
         /\ (last.op = "add_friend" /\ last.user = x /\ last.friend = y
               /\ Cardinality(EdgesBetween(x, y)) = 1 /\ Accepted(x, y))
               => /\ Count(get_friends(x)', y) > 0
                  /\ Count(get_friends(y)', x) > 0]_vars

\* C6 amended: for distinct users x and y without friend rows between them,
\* after add_friend(x, y) get_friend_requests(y) contains x (the request is
\* incoming for the friend argument), and after a following
\* accept_friend_request(y, x), the recipient accepting the requester,
\* get_friends(x) contains y and get_friends(y) contains x.
C6_RequestThenAcceptByRecipient ==
    [][\A x, y \in Users : x # y =>
         /\ (EdgesBetween(x, y) = {} /\ AddedFriend(x, y))
               => /\ Count(get_friend_requests(y)', x) > 0
                  /\ Count(get_friend_requests(x)', y) = 0
         /\ (last.op = "add_friend" /\ last.user = x /\ last.friend = y
               /\ Cardinality(EdgesBetween(x, y)) = 1 /\ Accepted(y, x))
               => /\ Count(get_friends(x)', y) > 0
                  /\ Count(get_friends(y)', x) > 0]_vars

\* C6 witness: ann asked bob, bob accepted, and each lists the other
C6_Witness ==
    /\ last.op = "accept_friend_request"
    /\ last.user = "bob" /\ last.friend = "ann"
    /\ Len(friends) = 2
    /\ friends[1].user = "ann" /\ friends[1].friend = "bob"
    /\ get_friends("ann") = <<"bob">>
    /\ get_friends("bob") = <<"ann">>
    /\ get_friend_requests("bob") = <<>>

\* C7: every call add_friend(a, b) adds exactly one row, a pending one, and
\* leaves the other rows alone, whatever the table holds: get_friend_requests(b)
\* lists a once more than before, and for a # b get_friend_requests(a) lists b
\* as often as before.  So after n calls add_friend(a, b) and nothing else,
\* get_friend_requests(b) lists a exactly n times and get_friend_requests(a)
\* does not list b.
C7_RequestAddsOnePendingForFriend ==
    /\ [][\A a, b \in Users : AddedFriend(a, b) =>
            /\ Len(friends') = Len(friends) + 1
            /\ SubSeq(friends', 1, Len(friends)) = friends
            /\ friends'[Len(friends')].status = "pending"
            /\ Count(get_friend_requests(b)', a)
                 = Count(get_friend_requests(b), a) + 1
            /\ a # b => Count(get_friend_requests(a)', b)
                          = Count(get_friend_requests(a), b)]_vars
    /\ [](\A a, b \in Users :
            (a # b /\ \A i \in 1..Len(friends) :
                         /\ friends[i].user = a /\ friends[i].friend = b
                         /\ friends[i].status = "pending")
               => /\ Count(get_friend_requests(b), a) = Len(friends)
                  /\ Count(get_friend_requests(a), b) = 0)

\* C7 witness: ann has asked bob three times and nothing else has happened
C7_Witness ==
    /\ last.op = "add_friend" /\ last.user = "ann" /\ last.friend = "bob"
    /\ Len(friends) = 3
    /\ get_friend_requests("bob") = <<"ann", "ann", "ann">>
    /\ get_friend_requests("ann") = <<>>

\* C8 as stated: when recipient b accepts while a request of requester a to b
\* is pending, then right afterwards get_friends(a) contains b, get_friends(b)
\* contains a and get_friend_requests(b) does not contain a, whether or not
\* a row <<b, a>> was there before.
C8_Original ==
    [][\A a, b \in Users :
         (a # b /\ PendingFrom(a, b) # {} /\ Accepted(b, a))
            => /\ Count(get_friends(a)', b) > 0
               /\ Count(get_friends(b)', a) > 0
               /\ Count(get_friend_requests(b)', a) = 0]_vars

\* C9 as stated: once b has accepted a request of a, and whatever rows the
\* table holds, calling accept_friend_request(b, a) again leaves
\* get_friends(a) listing b exactly once and get_friends(b) listing a exactly
\* once.
C9_Original ==
    \A a, b \in Users :
        (/\ a # b
         /\ last.op = "accept_friend_request"
         /\ last.user = b /\ last.friend = a
         /\ Where(friends, LAMBDA r : /\ r.user = a /\ r.friend = b
                                      /\ r.status = "accepted") # {})
           => LET again == AcceptRows(FriendConn, b, a).friends
              IN /\ Count(FriendsIn(again, a), b) = 1
                 /\ Count(FriendsIn(again, b), a) = 1

\* C11: after a call of rescan_achievements has completed, for every
\* (user, game) with rows in the ledger the user holds the achievement of
\* every score threshold the pair's maximum score reaches and of every
\* play-count threshold the pair's number of events reaches, also when
\* record_score calls ended between their write and their evaluation.
C11_RescanGrantsEveryMetThreshold ==
    last.op = "rescan_achievements" =>
        \A u \in Users, g \in Games :
            LET ev == EventsOf(u, g)
            IN /\ \A k \in 1..Len(score_thresholds) :
                      (\E i \in ev : leaderboard[i].score >= score_thresholds[k])
                        => Held(u, g \o "_score_"
                                     \o ToString(score_thresholds[k])) # {}
               /\ \A k \in 1..Len(play_thresholds) :
                      Cardinality(ev) >= play_thresholds[k]
                        => Held(u, g \o "_plays_"
                                     \o ToString(play_thresholds[k])) # {}

\* the only event of the ledger was written by a call that never evaluated
\* it, and the rescan has granted both score achievements
C11_Witness ==
    /\ last.op = "rescan_achievements"
    /\ Len(leaderboard) = 1
    /\ interrupted = 1
    /\ Held("ann", "Snake_score_500") # {}
    /\ Held("ann", "Snake_score_1000") # {}

\* C12: a record_score call whose evaluation fails or never runs leaves the
\* score event it wrote in the ledger, as the last row with the call's game,
\* user and score, grants nothing, and no later step removes or changes a
\* row of the ledger.
C12_InterruptedCallKeepsItsEvent ==
    [][/\ last'.op = "record_score_interrupted"
          => /\ leaderboard' = Append(leaderboard,
                                      [game |-> last'.game,
                                       user |-> last'.user,
                                       score |-> last'.score,
                                       created_at |-> now])
             /\ achievements' = achievements
       /\ Len(leaderboard') >= Len(leaderboard)
       /\ SubSeq(leaderboard', 1, Len(leaderboard)) = leaderboard]_vars

\* an interrupted call has written a score that reaches both score
\* thresholds, and the player holds neither achievement
C12_Witness ==
    /\ last.op = "record_score_interrupted"
    /\ last.score >= 1000
    /\ leaderboard # <<>>
    /\ leaderboard[Len(leaderboard)].score = last.score
    /\ Held(last.user, "Snake_score_500") = {}
    /\ Held(last.user, "Snake_score_1000") = {}

\* the number of thresholds the ledger's (user, game) pairs reach: per pair,
\* the score thresholds some event of the pair reaches and the play-count
\* thresholds the number of its events reaches
ThresholdMatches ==
    LET pairs == {p \in Users \X Games : EventsOf(p[1], p[2]) # {}}
        f == [p \in pairs |->
                LET ev == EventsOf(p[1], p[2])
                IN Cardinality({k \in 1..Len(score_thresholds) :
                                  \E i \in ev :
                                     leaderboard[i].score >= score_thresholds[k]})
                   + Cardinality({k \in 1..Len(play_thresholds) :
                                    Cardinality(ev) >= play_thresholds[k]})]
    IN SumFn(f, pairs)

\* C13: rescan_achievements returns the number of threshold matches of the
\* ledger, whatever achievements are held, and a second call on the unchanged
\* ledger returns the same number.
C13_RescanReturnsThresholdMatches ==
    last.op = "rescan_achievements" =>
        /\ last.ret = Some(ThresholdMatches)
        /\ \A rows \in Orders(GroupUserGames(leaderboard,
                                              1..Len(leaderboard))) :
               Some(RescanRows(Conn, rows, 1).awarded) = last.ret

\* every call of a run past the last play-count threshold was evaluated, so
\* the rescan granted nothing, and it has returned five
C13_Witness ==
    /\ last.op = "rescan_achievements"
    /\ last.ret = Some(5)
    /\ Len(leaderboard) >= 25
    /\ interrupted = 0
    /\ Len(achievements) = 5

\* C14: the ledger is append-only.  A record_score call, evaluated or not,
\* adds exactly one row, with the call's game, user and score, after the rows
\* the ledger had and leaves those unchanged; every other operation
\* (add_user_if_not_exists, add_friend, accept_friend_request,
\* rescan_achievements) leaves the ledger as it was.
C14_LedgerAppendOnly ==
    [][IF last'.op \in {"record_score", "record_score_interrupted"}
       THEN /\ Len(leaderboard') = Len(leaderboard) + 1
            /\ SubSeq(leaderboard', 1, Len(leaderboard)) = leaderboard
            /\ LET e == leaderboard'[Len(leaderboard')]
               IN /\ e.game = last'.game
                  /\ e.user = last'.user
                  /\ e.score = last'.score
       ELSE leaderboard' = leaderboard]_vars

\* one player has two events of one game, and a friend request was made
\* after them
C14_Witness ==
    /\ Len(leaderboard) = 2
    /\ leaderboard[1].user = leaderboard[2].user
    /\ leaderboard[1].game = leaderboard[2].game
    /\ leaderboard[1].score # leaderboard[2].score
    /\ last.op = "add_friend"
    /\ friends # <<>>

\* C15: add_user_if_not_exists is idempotent.  A call for a username the
\* table lacks appends one row with the call's clock reading; a call for a
\* username the table holds changes nothing, so created_at stays that of the
\* first call; after any call the table has exactly one row for the call's
\* username and no two rows with one username, a further call for the same
\* username would change nothing, and no call raises an error.
C15_EnsureUserIdempotent ==
    [][last'.op = "add_user_if_not_exists" =>
         LET u == last'.user
             held == Where(users, LAMBDA r : r.username = u)
             again == AddUserRows([users |-> users', now |-> now',
                                   error |-> None], u)
         IN /\ last'.error = None
            /\ held # {} => users' = users /\ now' = now
            /\ held = {} => users' = Append(users, [username |-> u,
                                                    created_at |-> now])
            /\ Cardinality(Where(users', LAMBDA r : r.username = u)) = 1
            /\ \A i, j \in 1..Len(users') :
                   users'[i].username = users'[j].username => i = j
            /\ again.users = users'
            /\ again.error = None]_vars

\* a user was ensured again after other operations had advanced the clock
\* since the user's row was created
C15_Witness ==
    /\ last.op = "add_user_if_not_exists"
    /\ \E i \in 1..Len(users) :
          /\ users[i].username = last.user
          /\ users[i].created_at + 1 < now

\* C16: when two add_user_if_not_exists calls for one new username run
\* concurrently, both existence checks before either INSERT, no caller
\* observes a failure and the table has exactly one row for the username:
\* no call is left by an exception, and no two rows have one username.
C16_Original ==
    /\ \A p \in Procs : procs[p].error = None
    /\ last.op = "add_user_if_not_exists" => last.error = None
    /\ \A i, j \in 1..Len(users) :
          users[i].username = users[j].username => i = j

C17_OverallRanks ==
    \A u \in Users :
        /\ get_overall_rank(u) = None <=> u \notin Players
        /\ get_overall_rank_by_bests(u) = None <=> u \notin Players
        /\ u \in Players =>
              /\ get_overall_rank(u)
                   = Some(1 + Cardinality(
                                {v \in Players :
                                   get_user_total(v) > get_user_total(u)}))
              /\ get_overall_rank_by_bests(u)
                   = Some(1 + Cardinality(
                                {v \in Players :
                                   get_user_overall_by_bests(v)
                                     > get_user_overall_by_bests(u)}))
              /\ \A v \in Players :
                    /\ get_user_total(v) = get_user_total(u)
                         => get_overall_rank(v) = get_overall_rank(u)
                    /\ get_user_overall_by_bests(v)
                           = get_user_overall_by_bests(u)
                         => get_overall_rank_by_bests(v)
                              = get_overall_rank_by_bests(u)

\* ann and bob tie by sum of events and share rank 1, while by sum of bests
\* bob is ahead and ann has rank 2
C17_Witness ==
    /\ get_user_total("ann") = get_user_total("bob")
    /\ get_overall_rank("ann") = Some(1)
    /\ get_overall_rank("bob") = Some(1)
    /\ get_overall_rank_by_bests("bob") = Some(1)
    /\ get_overall_rank_by_bests("ann") = Some(2)

\* C18: every list get_leaderboard(game, limit) may return has
\* min(limit, number of users with an event for the game) entries, each for a
\* user with an event for the game and no user twice, each carrying the
\* maximum of that user's scores for the game, in non-increasing order of
\* score; a user without an event for the game is not listed.
C18_GameLeaderboard ==
    \A g \in Games, limit \in Limits :
        /\ get_leaderboard(g, limit) # {}
        /\ \A board \in get_leaderboard(g, limit) :
              /\ Len(board)
                   = Min(limit,
                         Cardinality({u \in Users : EventsOf(u, g) # {}}))
              /\ \A i \in 1..Len(board) :
                    LET ev == EventsOf(board[i][1], g)
                    IN /\ ev # {}
                       /\ \E k \in ev : leaderboard[k].score = board[i][2]
                       /\ \A k \in ev : leaderboard[k].score <= board[i][2]
              /\ \A i, j \in 1..Len(board) :
                    /\ i # j => board[i][1] # board[j][1]
                    /\ i < j => board[i][2] >= board[j][2]

\* ann has two Snake events whose sum equals bob's one score: the Snake
\* board lists bob before ann with her maximum, limit 1 cuts it to bob, and
\* the Pacman board is empty
C18_Witness ==
    /\ get_user_game_total("ann", "Snake") = 1200
    /\ Cardinality(EventsOf("ann", "Snake")) = 2
    /\ \A board \in get_leaderboard("Snake", 20) :
          /\ Len(board) = 2
          /\ board[1][1] = "bob" /\ board[1][2] = 1200
          /\ board[2][1] = "ann" /\ board[2][2] = 600
    /\ \A board \in get_leaderboard("Snake", 1) :
          Len(board) = 1 /\ board[1][1] = "bob"
    /\ get_leaderboard("Pacman", 20) = {<<>>}

\* tbl2 begins with the rows of tbl1, unchanged
Extends(tbl1, tbl2) ==
    /\ Len(tbl2) >= Len(tbl1)
    /\ SubSeq(tbl2, 1, Len(tbl1)) = tbl1

\* C19: no step deletes or rewrites a row of users, leaderboard or
\* achievements: each table begins, after the step, with the rows it had.  No
\* step removes a friends row or changes its user or friend; a row's status
\* changes only from pending to accepted, and a row whose status stays is
\* unchanged.
C19_NothingDeletedOrRewritten ==
    [][/\ Extends(users, users')
       /\ Extends(leaderboard, leaderboard')
       /\ Extends(achievements, achievements')
       /\ Len(friends') >= Len(friends)
       /\ \A i \in 1..Len(friends) :
             /\ friends'[i].user = friends[i].user
             /\ friends'[i].friend = friends[i].friend
             /\ \/ friends'[i] = friends[i]
                \/ /\ friends[i].status = "pending"
                   /\ friends'[i].status = "accepted"]_vars

\* with a user registered, a request was accepted: the request row has
\* become accepted in place and the mirrored row follows it
C19_Witness ==
    /\ users # <<>>
    /\ last.op = "accept_friend_request"
    /\ Len(friends) = 2
    /\ friends[1].status = "accepted"
    /\ friends[2].status = "accepted"
    /\ friends[1].user = friends[2].friend
    /\ friends[1].friend = friends[2].user
    /\ friends[1].user # friends[1].friend
    /\ friends[1].added_at + 1 = friends[2].added_at
    /\ friends[1].added_at > users[1].created_at + 1

\* C21: when two record_score calls for one user and game run in two
\* processes, each evaluating on a connection of its own with the SELECT and
\* the INSERT of _award as separate steps, the achievements table holds at
\* most one row per (user, key).
C21_Original ==
    \A i \in 1..Len(achievements) :
        Cardinality(Held(achievements[i].user, achievements[i].key)) = 1

\* C22: an accepted friendship requires a prior request.  No row is ever
\* deleted, so while the table has no row between u and v no request between
\* them was made: a step from such a state does not leave v in
\* get_friends(u); and accept_friend_request(u, v) called while no pending
\* request of v to u exists leaves get_friends(u) and get_friends(v) as they
\* were.
C22_Original ==
    [][\A u, v \in Users :
         /\ EdgesBetween(u, v) = {} => Count(FriendsIn(friends', u), v) = 0
         /\ (Accepted(u, v) /\ PendingFrom(v, u) = {})
               => /\ FriendsIn(friends', u) = get_friends(u)
                  /\ FriendsIn(friends', v) = get_friends(v)]_vars

\* the (user, key) pairs of the rows of an achievements table
KeysOf(tbl) == {<<tbl[i].user, tbl[i].key>> : i \in 1..Len(tbl)}

\* C23: while every record_score call so far has completed its evaluation,
\* the achievements held are those rescan_achievements derives from the
\* ledger alone, and a rescan_achievements call would insert no row.
C23_IncrementalAgreesWithRescan ==
    interrupted = 0 =>
        \A rows \in Orders(GroupUserGames(leaderboard, 1..Len(leaderboard))) :
            /\ RescanRows(Conn, rows, 1).achievements = achievements
            /\ KeysOf(RescanRows([Conn EXCEPT !.achievements = <<>>],
                                 rows, 1).achievements)
                 = KeysOf(achievements)

\* five evaluated runs, the best of them between the two score thresholds:
\* the first score and the first play-count achievement are held
C23_Witness ==
    /\ interrupted = 0
    /\ last.op = "record_score"
    /\ Len(leaderboard) = 5
    /\ KeysOf(achievements)
         = {<<"ann", "Snake_score_500">>, <<"ann", "Snake_plays_5">>}

\* C24: every held achievement is justified by the ledger: the key of every
\* achievements row is "<game>_score_<t>" for a score threshold t, and the
\* ledger has an event of the row's user and that game with score >= t, or
\* it is "<game>_plays_<p>" for a play-count threshold p, and the ledger has
\* at least p events of the row's user and that game.
C24_HeldAchievementsJustified ==
    \A n \in 1..Len(achievements) :
        LET a == achievements[n]
        IN \E g \in Games :
              \/ \E k \in 1..Len(score_thresholds) :
                    /\ a.key = g \o "_score_" \o ToString(score_thresholds[k])
                    /\ \E i \in EventsOf(a.user, g) :
                          leaderboard[i].score >= score_thresholds[k]
              \/ \E k \in 1..Len(play_thresholds) :
                    /\ a.key = g \o "_plays_" \o ToString(play_thresholds[k])
                    /\ Cardinality(EventsOf(a.user, g)) >= play_thresholds[k]

\* exactly five runs that all stayed below the first score threshold, one of
\* them never evaluated: the rescan has left the first play-count
\* achievement and no other
C24_Witness ==
    /\ last.op = "rescan_achievements"
    /\ interrupted = 1
    /\ Len(leaderboard) = 5
    /\ \A i \in 1..Len(leaderboard) : leaderboard[i].score < 500
    /\ Len(achievements) = 1
    /\ achievements[1].key = "Snake_plays_5"

\* the best scores for the game of the users with an event for it are
\* pairwise distinct
DistinctBests(game) ==
    \A u, v \in Users :
        (u # v /\ EventsOf(u, game) # {} /\ EventsOf(v, game) # {})
          => get_user_best_for_game(u, game) # get_user_best_for_game(v, game)

\* C25: for every list get_leaderboard(game, limit) may return and every
\* 1-based position p of it, get_rank_for_game of the user at p for the game
\* is defined and at most p, and equal to p when the best scores of the
\* game's users are pairwise distinct.
C25_PositionBoundsRank ==
    \A g \in Games, limit \in Limits :
        \A board \in get_leaderboard(g, limit) :
            \A p \in 1..Len(board) :
                LET rank == get_rank_for_game(board[p][1], g)
                IN /\ rank # None
                   /\ rank[1] <= p
                   /\ DistinctBests(g) => rank[1] = p

\* ann and bob tie in Snake, so that whoever is listed second has rank 1,
\* and bob leads Pacman alone
C25_Witness ==
    /\ get_user_best_for_game("ann", "Snake") = 600
    /\ get_user_best_for_game("bob", "Snake") = 600
    /\ Cardinality(get_leaderboard("Snake", 20)) = 2
    /\ \A board \in get_leaderboard("Snake", 20) :
          Len(board) = 2 /\ get_rank_for_game(board[2][1], "Snake") = Some(1)
    /\ \A board \in get_leaderboard("Pacman", 20) :
          Len(board) = 1 /\ board[1][1] = "bob"
    /\ DistinctBests("Pacman") /\ ~DistinctBests("Snake")

====
